---------------------------- MODULE Spec2Model ----------------------------
(***************************************************************************)
(* Model of schema/function.go (the typed function-calling layer) and of   *)
(* the OneOf unserialization exercised by schema/oneof_int_test.go.        *)
(*                                                                         *)
(* A handler is a native Go function value.  The code never looks at its   *)
(* body: it inspects the signature through reflect (NumIn, In, NumOut,     *)
(* Out, Name) and, in Call, the values the handler returned (IsNil,        *)
(* Interface, the type assertion to error).  A handler is therefore        *)
(* modelled by its signature, and each invocation returns any sequence of  *)
(* values its signature allows.                                            *)
(***************************************************************************)
EXTENDS Integers, Sequences, FiniteSets, TLC

VARIABLES fn, last, invocations, scopeRefs, unser

vars == <<fn, last, invocations, scopeRefs, unser>>

fnVars == <<fn, last, invocations>>
oneOfVars == <<scopeRefs, unser>>

(***************************************************************************)
(* Bounds of the model.                                                    *)
(***************************************************************************)
MaxParams == 2
MaxReturns == 3
MaxCalls == 2

BSeq(S, n) == UNION {[1..k -> S] : k \in 0..n}

(***************************************************************************)
(* Native (reflect) types.  Two reflect.Type values are == exactly when    *)
(* they are the same type; Name() gives the type's name without its        *)
(* package.  UserErrorIface and UserErrorInt are types a caller's package  *)
(* declares under the name "error" (type error interface{ Code() int },    *)
(* type error int): neither is the predeclared error interface.            *)
(***************************************************************************)
Int64T == [pkg |-> "", name |-> "int64", kind |-> "int64", implementsError |-> FALSE]
StringT == [pkg |-> "", name |-> "string", kind |-> "string", implementsError |-> FALSE]
BuiltinError == [pkg |-> "", name |-> "error", kind |-> "interface", implementsError |-> TRUE]
UserErrorIface == [pkg |-> "main", name |-> "error", kind |-> "interface", implementsError |-> FALSE]
UserErrorInt == [pkg |-> "main", name |-> "error", kind |-> "int", implementsError |-> FALSE]

ParamGoTypes == {Int64T, StringT}
ReturnGoTypes == {Int64T, BuiltinError, UserErrorIface, UserErrorInt}

Name(t) == t.name

\* The kinds reflect.Value.IsNil accepts; on any other kind it panics.
NilableKinds == {"interface", "ptr", "map", "slice", "func", "chan"}

(***************************************************************************)
(* Declared schema types (schema.Type), by type id, and nil.               *)
(***************************************************************************)
NilType == "nil"
SchemaTypes == {"integer", "string"}

ReflectedType(t) == IF t = "integer" THEN Int64T ELSE StringT

IdDisplayPairs == {<<"add", "Adds two numbers">>}

(***************************************************************************)
(* Handlers: reflect.ValueOf(handler) for a func value.                    *)
(***************************************************************************)
Handlers == [in : BSeq(ParamGoTypes, MaxParams), out : BSeq(ReturnGoTypes, MaxReturns)]

NumIn(h) == Len(h.in)
NumOut(h) == Len(h.out)
In(h, i) == h.in[i + 1]
Out(h, i) == h.out[i + 1]

(***************************************************************************)
(* Values.  An `any` is nil or holds a dynamic value; isError says whether *)
(* that dynamic value implements error.  An error returned by this code is *)
(* a message kind and the cause it wraps.                                  *)
(***************************************************************************)
NilAny == [isNil |-> TRUE, isError |-> FALSE, data |-> 0]
NoError == [kind |-> "nil", cause |-> NilAny]
Errorf(kind, cause) == [kind |-> kind, cause |-> cause]

NilFn == [isNil |-> TRUE]

(***************************************************************************)
(* The dynamic output resolvers a caller may pass (typeHandler), or nil.   *)
(***************************************************************************)
NilTypeHandler == "nil"
TypeHandlers == {"firstInput", "integerOnly"}

TypeHandlerCall(h, inputType) ==
    IF h = "firstInput"
    THEN IF Len(inputType) = 0
         THEN [type |-> NilType, err |-> Errorf("resolver: no inputs", NilAny)]
         ELSE [type |-> inputType[1], err |-> NoError]
    ELSE IF \A i \in 1..Len(inputType) : inputType[i] = "integer"
         THEN [type |-> "integer", err |-> NoError]
         ELSE [type |-> NilType, err |-> Errorf("resolver: unsupported inputs", NilAny)]

(***************************************************************************)
(* validateInputTypeCompatibility                                          *)
(***************************************************************************)
\* validateInputTypeCompatibility with the loop starting at index 1.
validateInputsSkipsFirst(inputs, handler) ==
    IF Len(inputs) # NumIn(handler)
    THEN Errorf("parameter inputs do not match handler inputs", NilAny)
    ELSE IF \E i \in 1..(Len(inputs) - 1) : ReflectedType(inputs[i + 1]) # In(handler, i)
         THEN Errorf("type mismatch for parameter", NilAny)
         ELSE NoError

validateInputTypeCompatibility(inputs, handler) ==
    LET specifiedParams == Len(inputs)
        actualParams == NumIn(handler)
    IN  IF specifiedParams # actualParams
        THEN Errorf("parameter inputs do not match handler inputs", NilAny)
        ELSE IF \E i \in 0..(Len(inputs) - 1) : ReflectedType(inputs[i + 1]) # In(handler, i)
             THEN Errorf("type mismatch for parameter", NilAny)
             ELSE NoError

CallableFunctionSchema(id, inputs, output, display, handler, typeHandler) ==
    [IDValue |-> id, InputsValue |-> inputs, DefaultOutputValue |-> output,
     DisplayValue |-> display, Handler |-> handler, DynamicTypeHandler |-> typeHandler]

Failed(kind) == [fn |-> NilFn, err |-> Errorf(kind, NilAny)]

(***************************************************************************)
(* NewCallableFunction                                                     *)
(***************************************************************************)
NewCallableFunction(id, inputs, output, display, handler) ==
    LET err == validateInputTypeCompatibility(inputs, handler)
        returnCount == NumOut(handler)
        ok == [fn |-> CallableFunctionSchema(id, inputs, output, display, handler, NilTypeHandler),
               err |-> NoError]
    IN  IF err # NoError THEN [fn |-> NilFn, err |-> err]
        ELSE IF output = NilType
        THEN IF returnCount > 1
             THEN Failed("parameter output is nil but got several return types")
             ELSE IF returnCount = 1 /\ Name(Out(handler, 0)) # "error"
                  THEN Failed("expected void or error return")
                  ELSE ok
        ELSE IF returnCount > 2 \/ returnCount < 1
             THEN Failed("expected handler to have one return, or one plus an error return")
             ELSE IF ReflectedType(output) # Out(handler, 0)
                  THEN Failed("mismatched return type")
                  ELSE IF returnCount = 2 /\ Name(Out(handler, 1)) # "error"
                       THEN Failed("expected additional return type to be an error return")
                       ELSE ok

(***************************************************************************)
(* NewDynamicCallableFunction                                              *)
(***************************************************************************)
NewDynamicCallableFunction(id, inputs, display, handler, typeHandler) ==
    LET err == validateInputTypeCompatibility(inputs, handler)
        returnCount == NumOut(handler)
    IN  IF err # NoError THEN [fn |-> NilFn, err |-> err]
        ELSE IF returnCount # 2
        THEN Failed("expected dynamic handler to have two returns")
        ELSE IF Name(Out(handler, 1)) # "error"
             THEN Failed("expected additional return type to be an error return")
             ELSE [fn |-> CallableFunctionSchema(id, inputs, NilType, display, handler, typeHandler),
                   err |-> NoError]

(***************************************************************************)
(* CallableFunctionSchema accessors                                        *)
(***************************************************************************)
ID(s) == s.IDValue
Parameters(s) == s.InputsValue
Display(s) == s.DisplayValue

(***************************************************************************)
(* CallableFunctionSchema.Output                                           *)
(* resolverArgs lists the arguments of the resolver invocations made.      *)
(***************************************************************************)
\* Output swallowing a resolver error and falling back to the static type.
OutputSwallowsError(s, inputType) ==
    IF s.DynamicTypeHandler = NilTypeHandler
    THEN [type |-> s.DefaultOutputValue, err |-> NoError, resolverArgs |-> <<>>]
    ELSE LET r == TypeHandlerCall(s.DynamicTypeHandler, inputType)
         IN  IF r.err # NoError
             THEN [type |-> s.DefaultOutputValue, err |-> NoError, resolverArgs |-> <<inputType>>]
             ELSE [type |-> r.type, err |-> r.err, resolverArgs |-> <<inputType>>]

Output(s, inputType) ==
    IF s.DynamicTypeHandler = NilTypeHandler
    THEN [type |-> s.DefaultOutputValue, err |-> NoError, resolverArgs |-> <<>>]
    ELSE LET r == TypeHandlerCall(s.DynamicTypeHandler, inputType)
         IN  [type |-> r.type, err |-> r.err, resolverArgs |-> <<inputType>>]

(***************************************************************************)
(* CallableFunctionSchema.ToFunctionSchema                                 *)
(***************************************************************************)
NilSchema == [isNil |-> TRUE]

\* ToFunctionSchema without the check for a dynamic output.
ToFunctionSchemaUnchecked(s) ==
    [schema |-> [IDValue |-> s.IDValue, InputsValue |-> Parameters(s),
                 OutputValue |-> s.DefaultOutputValue, DisplayValue |-> s.DisplayValue],
     err |-> NoError]

ToFunctionSchema(s) ==
    IF s.DynamicTypeHandler # NilTypeHandler /\ s.DefaultOutputValue = NilType
    THEN [schema |-> NilSchema,
          err |-> Errorf("cannot be represented as a FunctionSchema", NilAny)]
    ELSE [schema |-> [IDValue |-> s.IDValue, InputsValue |-> Parameters(s),
                      OutputValue |-> s.DefaultOutputValue, DisplayValue |-> s.DisplayValue],
          err |-> NoError]

(***************************************************************************)
(* Arguments of Call, and the values a handler returns.                    *)
(***************************************************************************)
ArgValues == {[type |-> Int64T, data |-> 2], [type |-> StringT, data |-> 7]}

\* The reflect.Values a function result of static type t can hold.
ReturnValues(t) ==
    IF t.kind = "interface"
    THEN {[type |-> t, isNil |-> TRUE, isError |-> FALSE, data |-> 0]}
         \cup {[type |-> t, isNil |-> FALSE, isError |-> e, data |-> 9] :
                 e \in IF t.implementsError THEN {TRUE} ELSE BOOLEAN}
    ELSE {[type |-> t, isNil |-> FALSE, isError |-> t.implementsError, data |-> 5]}

AllReturnValues == UNION {ReturnValues(t) : t \in ReturnGoTypes}

\* What reflect.Value.Call can return for a handler: one value per declared result.
HandlerResults(h) ==
    {r \in [1..NumOut(h) -> AllReturnValues] : \A i \in 1..NumOut(h) : r[i] \in ReturnValues(h.out[i])}

\* reflect.Value.Interface
Interface(v) ==
    IF v.type.kind = "interface" /\ v.isNil
    THEN NilAny
    ELSE [isNil |-> FALSE, isError |-> v.isError, data |-> v.data]

\* reflect.Value.Call panics unless each argument is assignable to its parameter.
ArgsAssignable(h, arguments) ==
    \A i \in 1..Len(arguments) : arguments[i].type = h.in[i]

\* reflect.Value.Call runs the function only when given as many arguments as it has
\* parameters, each assignable; only then are there results.
HandlerRuns(h, arguments) == Len(arguments) = NumIn(h) /\ ArgsAssignable(h, arguments)

Returned(value, err, invoked) ==
    [outcome |-> "returned", value |-> value, err |-> err, invoked |-> invoked]
Panicked(invoked) ==
    [outcome |-> "panic", value |-> NilAny, err |-> NoError, invoked |-> invoked]

(***************************************************************************)
(* CallableFunctionSchema.Call.  result is what the handler returns if it  *)
(* is invoked.                                                             *)
(***************************************************************************)
ExpectedReturnVals(s) ==
    IF s.DefaultOutputValue # NilType \/ s.DynamicTypeHandler # NilTypeHandler THEN 1 ELSE 0

\* The branch `case expectedReturnVals+1 == gotReturns`, wrongly handing the data
\* value back beside the handler's error.
CallErrorReturnKeepsData(data, errorVal) ==
    IF errorVal.type.kind \notin NilableKinds
    THEN Panicked(TRUE)
    ELSE IF ~errorVal.isNil
         THEN IF ~errorVal.isError
              THEN Returned(NilAny, Errorf("error return val isn't an error", NilAny), TRUE)
              ELSE Returned(data, Errorf("function returned error", Interface(errorVal)), TRUE)
         ELSE Returned(data, NoError, TRUE)

\* The branch `case expectedReturnVals+1 == gotReturns`: errorVal.IsNil panics on a
\* kind that cannot be nil; a nil errorVal is taken as "no error" before its type is
\* looked at.
CallErrorReturn(data, errorVal) ==
    IF errorVal.type.kind \notin NilableKinds
    THEN Panicked(TRUE)
    ELSE IF ~errorVal.isNil
         THEN IF ~errorVal.isError
              THEN Returned(NilAny, Errorf("error return val isn't an error", NilAny), TRUE)
              ELSE Returned(NilAny, Errorf("function returned error", Interface(errorVal)), TRUE)
         ELSE Returned(data, NoError, TRUE)

\* Call with the handler invoked before the argument count is checked.
CallInvokesFirst(s, arguments, result) ==
    LET expectedReturnVals == ExpectedReturnVals(s)
        data == IF expectedReturnVals = 0 THEN NilAny ELSE Interface(result[1])
    IN  IF Len(arguments) # NumIn(s.Handler)
        THEN Returned(NilAny, Errorf("incorrect number of args", NilAny), TRUE)
        ELSE IF ~ArgsAssignable(s.Handler, arguments)
        THEN Panicked(FALSE)
        ELSE IF expectedReturnVals = Len(result)
        THEN Returned(data, NoError, TRUE)
        ELSE IF expectedReturnVals + 1 = Len(result)
        THEN CallErrorReturn(data, result[expectedReturnVals + 1])
        ELSE Returned(NilAny, Errorf("unexpected return count", NilAny), TRUE)

Call(s, arguments, result) ==
    LET gotArgs == Len(arguments)
        expectedArgs == NumIn(s.Handler)
        gotReturns == Len(result)
        expectedReturnVals == ExpectedReturnVals(s)
        data == IF expectedReturnVals = 0 THEN NilAny ELSE Interface(result[1])
    IN  IF gotArgs # expectedArgs
        THEN Returned(NilAny, Errorf("incorrect number of args", NilAny), FALSE)
        ELSE IF ~ArgsAssignable(s.Handler, arguments)
        THEN Panicked(FALSE)
        ELSE IF expectedReturnVals = gotReturns
        THEN Returned(data, NoError, TRUE)
        ELSE IF expectedReturnVals + 1 = gotReturns
        THEN CallErrorReturn(data, result[expectedReturnVals + 1])
        ELSE Returned(NilAny, Errorf("unexpected return count", NilAny), TRUE)

(***************************************************************************)
(* OneOf unserialization.  Untyped input values, as a JSON decoder leaves  *)
(* them: numbers, strings and keyed mappings.                              *)
(***************************************************************************)
MaxKey == 3

Num(n) == [k |-> "num", n |-> n, s |-> ""]
Str(t) == [k |-> "str", n |-> 0, s |-> t]
Map(m) == [k |-> "map", m |-> m]

\* The scope of the test: A {s: OneOf on "_type"}, B {message: string}, C {m: string}.
DiscriminatorField == "_type"
ScopeObjects == {"A", "B", "C"}
ScopeRoot == "A"
StringProperties == [B |-> {"message"}, C |-> {"m"}]
oneOfIntTestRefs == (1 :> "B" @@ 2 :> "C")

\* The input of TestOneOfIntUnserialization.
TestInput ==
    Map([s |-> Map([_type |-> Num(1), message |-> Str("Hello world!")])])

UnserError(kind) == [err |-> kind, variant |-> "", key |-> 0, value |-> <<>>, delegated |-> <<>>]

\* Scope.resolve: the Object registered under id, if any.
ScopeResolves(id) == id \in ScopeObjects

\* Unserialize of an Object all of whose properties are required strings.  Fields the
\* Object does not declare, the discriminator among them, are left alone.
ObjectUnserialize(id, input) ==
    IF input.k # "map" THEN [err |-> "InvalidInputError", value |-> <<>>]
    ELSE IF \E f \in StringProperties[id] : f \notin DOMAIN input.m
    THEN [err |-> "MissingFieldError", value |-> <<>>]
    ELSE IF \E f \in StringProperties[id] : input.m[f].k # "str"
    THEN [err |-> "TypeMismatchError", value |-> <<>>]
    ELSE [err |-> "", value |-> [f \in StringProperties[id] |-> input.m[f].s]]

\* OneOf dispatch that follows the Ref of the smallest configured key whatever
\* the discriminator says.
OneOfPickRefFirstKey(refs, key) ==
    refs[CHOOSE k \in DOMAIN refs : \A j \in DOMAIN refs : k <= j]

\* The Ref configured for a discriminator key.
OneOfPickRef(refs, key) == refs[key]

\* OneOfType.unserialize, steps 1 to 6.
OneOfUnserialize(refs, input) ==
    IF input.k # "map" THEN UnserError("InvalidInputError")
    ELSE IF DiscriminatorField \notin DOMAIN input.m THEN UnserError("MissingDiscriminatorError")
    ELSE IF input.m[DiscriminatorField].k # "num" THEN UnserError("TypeMismatchError")
    ELSE LET key == input.m[DiscriminatorField].n
         IN  IF key \notin DOMAIN refs
             THEN [UnserError("UnknownVariantError") EXCEPT !.key = key]
             ELSE LET target == OneOfPickRef(refs, key)
                  IN  IF ~ScopeResolves(target)
                      THEN [UnserError("UnknownTypeError") EXCEPT !.key = key]
                      ELSE LET r == ObjectUnserialize(target, input)
                           IN  IF r.err # ""
                               THEN [UnserError(r.err) EXCEPT !.key = key,
                                                              !.delegated = <<target>>]
                               ELSE [err |-> "", variant |-> target, key |-> key,
                                     value |-> r.value, delegated |-> <<target>>]

\* Unserialize of the scope: its root object A, whose required field s is the OneOf.
ScopeUnserialize(refs, input) ==
    IF input.k # "map" THEN [err |-> "InvalidInputError", s |-> UnserError("InvalidInputError")]
    ELSE IF "s" \notin DOMAIN input.m
    THEN [err |-> "MissingFieldError", s |-> UnserError("MissingFieldError")]
    ELSE LET r == OneOfUnserialize(refs, input.m["s"])
         IN  [err |-> r.err, s |-> r]

\* The OneOf configurations and inputs explored.
OneOfKeys == 1..MaxKey
RefTargets == {"B", "C", "D"}
OneOfConfigs == UNION {[ks -> RefTargets] : ks \in SUBSET OneOfKeys \ {{}}}

Discriminators == {Num(n) : n \in OneOfKeys} \cup {Str("x")}
Messages == {Str("Hello world!"), Num(5)}
OneOfInputs ==
    {Map(d @@ f @@ g) :
       d \in {<<>>} \cup {[_type |-> v] : v \in Discriminators},
       f \in {<<>>} \cup {[message |-> v] : v \in Messages},
       g \in {<<>>, [m |-> Str("bye")]}}
    \cup {Str("oops")}
ScopeInputs == {Map([s |-> v]) : v \in OneOfInputs} \cup {Map(<<>>), Str("oops")}

Init ==
    /\ fn = NilFn
    /\ last = [op |-> "none"]
    /\ invocations = 0
    /\ scopeRefs = oneOfIntTestRefs
    /\ unser = [op |-> "none"]

DoNewCallableFunction ==
    /\ last.op = "none"
    /\ \E idd \in IdDisplayPairs, inputs \in BSeq(SchemaTypes, MaxParams),
          output \in SchemaTypes \cup {NilType}, handler \in Handlers :
          LET r == NewCallableFunction(idd[1], inputs, output, idd[2], handler)
          IN  /\ fn' = r.fn
              /\ last' = [op |-> "NewCallableFunction", inputs |-> inputs,
                          output |-> output, handler |-> handler, err |-> r.err]
    /\ UNCHANGED <<invocations, oneOfVars>>

DoNewDynamicCallableFunction ==
    /\ last.op = "none"
    /\ \E idd \in IdDisplayPairs, inputs \in BSeq(SchemaTypes, MaxParams),
          handler \in Handlers, typeHandler \in TypeHandlers \cup {NilTypeHandler} :
          LET r == NewDynamicCallableFunction(idd[1], inputs, idd[2], handler, typeHandler)
          IN  /\ fn' = r.fn
              /\ last' = [op |-> "NewDynamicCallableFunction", inputs |-> inputs,
                          output |-> NilType, handler |-> handler, err |-> r.err]
    /\ UNCHANGED <<invocations, oneOfVars>>

DoCall ==
    /\ fn # NilFn
    /\ invocations < MaxCalls
    /\ \E arguments \in BSeq(ArgValues, MaxParams + 1) :
       \E result \in IF HandlerRuns(fn.Handler, arguments)
                     THEN HandlerResults(fn.Handler) ELSE {<<>>} :
          LET ret == Call(fn, arguments, result)
          IN  /\ last' = [op |-> "Call", arguments |-> arguments, result |-> result, ret |-> ret]
              /\ invocations' = invocations + (IF ret.invoked THEN 1 ELSE 0)
    /\ UNCHANGED <<fn, oneOfVars>>

DoOutput ==
    /\ fn # NilFn
    /\ \E inputType \in BSeq(SchemaTypes, MaxParams) :
          LET r == Output(fn, inputType)
          IN  last' = [op |-> "Output", inputType |-> inputType, type |-> r.type,
                       err |-> r.err, resolverArgs |-> r.resolverArgs]
    /\ UNCHANGED <<fn, invocations, oneOfVars>>

DoToFunctionSchema ==
    /\ fn # NilFn
    /\ LET r == ToFunctionSchema(fn)
       IN  last' = [op |-> "ToFunctionSchema", schema |-> r.schema, err |-> r.err]
    /\ UNCHANGED <<fn, invocations, oneOfVars>>

Next ==
    \/ DoNewCallableFunction
    \/ DoNewDynamicCallableFunction
    \/ DoCall
    \/ DoOutput
    \/ DoToFunctionSchema

Spec == Init /\ [][Next]_vars

InitOneOf ==
    /\ fn = NilFn
    /\ last = [op |-> "none"]
    /\ invocations = 0
    /\ scopeRefs \in OneOfConfigs
    /\ unser = [op |-> "none"]

DoUnserialize ==
    /\ \E input \in ScopeInputs :
          unser' = [op |-> "Unserialize", input |-> input,
                    ret |-> ScopeUnserialize(scopeRefs, input)]
    /\ UNCHANGED <<fnVars, scopeRefs>>

NextOneOf == DoUnserialize

SpecOneOf == InitOneOf /\ [][NextOneOf]_vars

(***************************************************************************)
(* Vocabulary of the properties.                                           *)
(***************************************************************************)
\* An error-kind result type: the predeclared error interface.
IsErrorType(t) == t = BuiltinError

\* An error-kind value: one of static type error, or whose dynamic value implements error.
IsErrorValue(v) == IsErrorType(v.type) \/ v.isError

IsConstruction == last.op \in {"NewCallableFunction", "NewDynamicCallableFunction"}

InputsMatch(inputs, handler) ==
    /\ Len(inputs) = NumIn(handler)
    /\ \A i \in 1..Len(inputs) : ReflectedType(inputs[i]) = handler.in[i]

HasDataOutput(s) == s.DefaultOutputValue # NilType \/ s.DynamicTypeHandler # NilTypeHandler

\* (T, error) with a declared output T, or only an error with no declared output.
HasTrailingErrorReturn(s) ==
    /\ NumOut(s.Handler) = (IF HasDataOutput(s) THEN 2 ELSE 1)
    /\ IsErrorType(s.Handler.out[NumOut(s.Handler)])

\* C1: for a function whose handler has a trailing error return, a Call that runs the
\* handler returns the data value (or none) with a nil error when the handler's error
\* is nil, and none with an error wrapping the handler's error otherwise; no Call
\* returns a non-nil data value beside a non-nil error.
C1_CallNormalizesErrorReturn ==
    last.op = "Call" =>
        /\ ~(last.ret.value # NilAny /\ last.ret.err # NoError)
        /\ (HasTrailingErrorReturn(fn) /\ last.ret.invoked) =>
              LET errorVal == last.result[Len(last.result)]
              IN  /\ last.ret.outcome = "returned"
                  /\ errorVal.isNil =>
                        /\ last.ret.err = NoError
                        /\ last.ret.value = (IF HasDataOutput(fn)
                                             THEN Interface(last.result[1]) ELSE NilAny)
                  /\ ~errorVal.isNil =>
                        /\ last.ret.value = NilAny
                        /\ last.ret.err = Errorf("function returned error", Interface(errorVal))

\* A (T, error) handler returned a non-nil data value and a non-nil error.
C1_Witness ==
    /\ last.op = "Call"
    /\ HasTrailingErrorReturn(fn)
    /\ HasDataOutput(fn)
    /\ last.ret.invoked
    /\ ~last.result[2].isNil
    /\ last.result[1] \in ReturnValues(Int64T)
    /\ last.ret.err.kind = "function returned error"

\* C2: both constructors return an error and no function whenever the handler's input
\* count differs from the number of declared parameters or a parameter's native type
\* differs from the declared type's representation.
C2_InputMismatchFailsConstruction ==
    (IsConstruction /\ ~InputsMatch(last.inputs, last.handler)) =>
        (last.err # NoError /\ fn = NilFn)

\* Same arity, the second parameter's type differs, rejected by the dynamic constructor.
C2_Witness ==
    /\ last.op = "NewDynamicCallableFunction"
    /\ Len(last.inputs) = 2
    /\ NumIn(last.handler) = 2
    /\ ReflectedType(last.inputs[1]) = last.handler.in[1]
    /\ ReflectedType(last.inputs[2]) # last.handler.in[2]
    /\ last.err.kind = "type mismatch for parameter"
    /\ fn = NilFn

\* The return shapes claim C3 allows.
StaticReturnShapeOk(output, handler) ==
    IF output = NilType
    THEN NumOut(handler) = 0 \/ (NumOut(handler) = 1 /\ IsErrorType(handler.out[1]))
    ELSE \/ NumOut(handler) = 1 /\ handler.out[1] = ReflectedType(output)
         \/ /\ NumOut(handler) = 2
            /\ handler.out[1] = ReflectedType(output)
            /\ IsErrorType(handler.out[2])

\* C3: with matching inputs, NewCallableFunction succeeds exactly for the allowed
\* return shapes and otherwise returns an error and no function.
C3_StaticReturnShape ==
    (last.op = "NewCallableFunction" /\ InputsMatch(last.inputs, last.handler)) =>
        IF StaticReturnShapeOk(last.output, last.handler)
        THEN last.err = NoError /\ fn # NilFn
        ELSE last.err # NoError /\ fn = NilFn

\* C4: with matching inputs, NewDynamicCallableFunction succeeds exactly when the
\* handler returns two values, the second an error-kind result.
C4_DynamicReturnShape ==
    (last.op = "NewDynamicCallableFunction" /\ InputsMatch(last.inputs, last.handler)) =>
        IF NumOut(last.handler) = 2 /\ IsErrorType(last.handler.out[2])
        THEN last.err = NoError /\ fn # NilFn
        ELSE last.err # NoError /\ fn = NilFn

\* C5: ToFunctionSchema fails exactly for a dynamic resolver without static output;
\* otherwise the schema carries the function's id, parameters, static output and display.
C5_ToFunctionSchema ==
    last.op = "ToFunctionSchema" =>
        IF fn.DynamicTypeHandler # NilTypeHandler /\ fn.DefaultOutputValue = NilType
        THEN last.err # NoError /\ last.schema = NilSchema
        ELSE /\ last.err = NoError
             /\ last.schema = [IDValue |-> fn.IDValue, InputsValue |-> fn.InputsValue,
                               OutputValue |-> fn.DefaultOutputValue,
                               DisplayValue |-> fn.DisplayValue]

\* A dynamic function was refused.
C5_Witness ==
    /\ last.op = "ToFunctionSchema"
    /\ fn.DynamicTypeHandler # NilTypeHandler
    /\ last.err.kind = "cannot be represented as a FunctionSchema"
    /\ last.schema = NilSchema

\* C6: Output of a static function is the declared output type for every inputTypes,
\* with no error; Output of a dynamic function invokes the resolver once, with the
\* inputTypes of that call, and returns the resolver's type and error unchanged.
C6_Output ==
    last.op = "Output" =>
        IF fn.DynamicTypeHandler = NilTypeHandler
        THEN /\ last.type = fn.DefaultOutputValue
             /\ last.err = NoError
             /\ last.resolverArgs = <<>>
        ELSE /\ last.resolverArgs = <<last.inputType>>
             /\ last.type = TypeHandlerCall(fn.DynamicTypeHandler, last.inputType).type
             /\ last.err = TypeHandlerCall(fn.DynamicTypeHandler, last.inputType).err

\* The resolver failed for the inputs given and the caller got its error.
C6_Witness ==
    /\ last.op = "Output"
    /\ fn.DynamicTypeHandler = "integerOnly"
    /\ last.inputType = <<"integer", "string">>
    /\ last.err.kind = "resolver: unsupported inputs"

\* C7: for every configured discriminator key, an input whose discriminator field
\* holds that key is delegated to exactly the Object registered under the key's Ref
\* and the result is tagged with that variant; the test's input yields variant B
\* carrying the input's message.
C7_OneOfDispatch ==
    /\ (/\ unser.op = "Unserialize"
        /\ unser.input.k = "map"
        /\ "s" \in DOMAIN unser.input.m
        /\ unser.input.m["s"].k = "map"
        /\ DiscriminatorField \in DOMAIN unser.input.m["s"].m
        /\ unser.input.m["s"].m[DiscriminatorField].k = "num"
        /\ unser.input.m["s"].m[DiscriminatorField].n \in DOMAIN scopeRefs
        /\ scopeRefs[unser.input.m["s"].m[DiscriminatorField].n] \in ScopeObjects \ {ScopeRoot}) =>
           LET key == unser.input.m["s"].m[DiscriminatorField].n
               target == scopeRefs[key]
               r == ObjectUnserialize(target, unser.input.m["s"])
           IN  /\ unser.ret.s.delegated = <<target>>
               /\ unser.ret.s.key = key
               /\ IF r.err = ""
                  THEN /\ unser.ret.err = ""
                       /\ unser.ret.s.variant = target
                       /\ unser.ret.s.value = r.value
                  ELSE unser.ret.err = r.err /\ unser.ret.s.variant = ""
    /\ (unser.op = "Unserialize" /\ scopeRefs = oneOfIntTestRefs /\ unser.input = TestInput) =>
           /\ unser.ret.err = ""
           /\ unser.ret.s.variant = "B"
           /\ unser.ret.s.value = [message |-> "Hello world!"]

\* The test's scope unserialized the test's input.
C7_Witness ==
    /\ unser.op = "Unserialize"
    /\ scopeRefs = oneOfIntTestRefs
    /\ unser.input = TestInput
    /\ unser.ret.s.variant = "B"
    /\ unser.ret.s.value["message"] = "Hello world!"

\* C8: a Call whose argument count differs from the handler's input count returns
\* (none, arity error) and does not invoke the handler; the handler is invoked only
\* in a Call that passed the arity check.
C8_ArityCheckedBeforeInvocation ==
    [][last'.op = "Call" =>
          /\ Len(last'.arguments) # NumIn(fn.Handler) =>
                /\ last'.ret = Returned(NilAny, Errorf("incorrect number of args", NilAny), FALSE)
                /\ invocations' = invocations
          /\ invocations' # invocations => Len(last'.arguments) = NumIn(fn.Handler)
          /\ invocations' = invocations + (IF last'.ret.invoked THEN 1 ELSE 0)]_vars

\* A two-parameter function was called with one argument.
C8_Witness ==
    /\ last.op = "Call"
    /\ NumIn(fn.Handler) = 2
    /\ Len(last.arguments) = 1
    /\ last.ret.err.kind = "incorrect number of args"
    /\ invocations = 0

\* C9: after a successful construction no Call with the right number of arguments
\* ends in the "unexpected return count" branch.
C9_NoUnexpectedReturnCount ==
    (last.op = "Call" /\ Len(last.arguments) = NumIn(fn.Handler)) =>
        last.ret.err.kind # "unexpected return count"

\* C10: when the value in the error position is not an error-kind value, Call fails
\* with the invalid-error-return error and no data, whether that value is nil or not.
C10_InvalidErrorReturnRejected ==
    (/\ last.op = "Call"
     /\ last.ret.invoked
     /\ Len(last.result) = ExpectedReturnVals(fn) + 1
     /\ ~IsErrorValue(last.result[Len(last.result)])) =>
        last.ret = Returned(NilAny, Errorf("error return val isn't an error", NilAny), TRUE)

=============================================================================
